---- MODULE Spec2Model ----
(***************************************************************************)
(* Model of scripts/scheduler.py: a launchd-backed job scheduler with a    *)
(* JSON registry.  The state is what the script shares between             *)
(* invocations: the registry file, the plist files in the LaunchAgents     *)
(* directory and the set of labels loaded in launchd.  One action per CLI  *)
(* command; each action is the whole handler, from load_registry to the    *)
(* final print.                                                            *)
(***************************************************************************)
EXTENDS Integers, Sequences, FiniteSets, TLC

VARIABLES
    registry,   \* contents of REGISTRY_FILE: the list of entries
    plists,     \* LAUNCH_AGENTS_DIR: existing plist path -> plist dict
    loaded,     \* labels currently loaded in launchd
    out,        \* the JSON object printed by the last command
    call,       \* the last command line: [cmd, name]
    req,        \* the launchctl request issued by the last command
    launchctl,  \* per job name: status of the last command's launchctl step
    prior,      \* entry, plist and log files of the job named by the last
                \* command, as they were when that command started
    logs,       \* REGISTRY_DIR/logs: existing log path -> list of lines
    procs       \* invocations running at the same time: per process its
                \* position, arguments, loaded entries and printed result

vars == <<registry, plists, loaded, out, call, req, launchctl, prior, logs, procs>>

----------------------------------------------------------------------------
(* Bounds and input domains *)

MaxTime == 2
MaxLogLines == 1

Names == {"a", "b"}
Commands == {"echo hi", "rsync -a"}
Descriptions == {""}
Times == 1..MaxTime
ReturnCodes == 0..1

EmptyDict == [k \in {} |-> 0]

\* schedule dicts passed on the command line
Schedules ==
    { [interval |-> 3600],
      [calendar |-> [Hour |-> 9], run_at_load |-> TRUE] }

\* inputs of add explored together with failing registry writes
FaultCommands == {"echo hi"}
FaultTimes == {1}

\* every shape of schedule dict: each key absent, falsy or truthy
IntervalOpts == {EmptyDict} \union {[interval |-> v] : v \in {0, 30, 60, 90, 3600}}
CalendarOpts ==
    { EmptyDict,
      [calendar |-> EmptyDict],
      [calendar |-> [Weekday |-> 1, Hour |-> 10, Minute |-> 0]] }
RunAtLoadOpts == {EmptyDict, [run_at_load |-> FALSE], [run_at_load |-> TRUE]}
WideSchedules ==
    {i @@ c @@ r : i \in IntervalOpts, c \in CalendarOpts, r \in RunAtLoadOpts}
ScheduleNames == {"a"}
\* the one schedule used where the schedule plays no part
ConcSchedules == {[interval |-> 3600]}

\* the lines argument of logs: one line, or the default
DefaultLines == 20
LineCounts == {1, DefaultLines}

----------------------------------------------------------------------------
(* Paths and labels *)

LABEL_PREFIX == "com.joneshong.scheduler."
LAUNCH_AGENTS_DIR == "~/Library/LaunchAgents"
REGISTRY_DIR == "~/Claude/skills/scheduler"

Label(name) == <<LABEL_PREFIX, name>>

plist_path(name) == <<LAUNCH_AGENTS_DIR, LABEL_PREFIX, name, ".plist">>

log_path(name, ext) == <<REGISTRY_DIR, "logs", name, ext>>

----------------------------------------------------------------------------
(* Registry helpers *)

\* any(e["name"] == name for e in entries), the duplicate check of add_job
HasNameNever(entries, name) == FALSE

HasName(entries, name) ==
    \E i \in DOMAIN entries : entries[i].name = name

\* next((e for e in entries if e["name"] == name), None): <<>> is None
Find(entries, name) ==
    IF \E i \in DOMAIN entries : entries[i].name = name
    THEN LET i == CHOOSE j \in DOMAIN entries :
                      /\ entries[j].name = name
                      /\ \A k \in DOMAIN entries : entries[k].name = name => j <= k
         IN <<entries[i]>>
    ELSE <<>>

\* [e for e in entries if e["name"] != name]
WithoutOthers(entries, name) ==
    SelectSeq(entries, LAMBDA e : e.name = name)

Without(entries, name) ==
    SelectSeq(entries, LAMBDA e : e.name # name)

\* entry["enabled"] = v on the first entry named name (entry aliases the list item)
SetEnabledAlwaysTrue(entries, name, v) ==
    LET first == CHOOSE j \in DOMAIN entries :
                     /\ entries[j].name = name
                     /\ \A k \in DOMAIN entries : entries[k].name = name => j <= k
    IN [entries EXCEPT ![first].enabled = TRUE]

SetEnabled(entries, name, v) ==
    LET first == CHOOSE j \in DOMAIN entries :
                     /\ entries[j].name = name
                     /\ \A k \in DOMAIN entries : entries[k].name = name => j <= k
    IN [entries EXCEPT ![first].enabled = v]

\* the entry dict built by add_job
EntryDisabled(name, command, schedule, description, now) ==
    [ name |-> name, label |-> Label(name), command |-> command,
      schedule |-> schedule, description |-> description,
      plist |-> plist_path(name), enabled |-> FALSE, created |-> now ]

Entry(name, command, schedule, description, now) ==
    [ name |-> name, label |-> Label(name), command |-> command,
      schedule |-> schedule, description |-> description,
      plist |-> plist_path(name), enabled |-> TRUE, created |-> now ]

----------------------------------------------------------------------------
(* Plist construction *)

\* schedule.get("interval") is truthy
HasInterval(schedule) ==
    "interval" \in DOMAIN schedule /\ schedule.interval # 0

\* schedule.get("calendar") is truthy
HasCalendar(schedule) ==
    "calendar" \in DOMAIN schedule /\ DOMAIN schedule.calendar # {}

\* schedule.get("run_at_load", False) is truthy
HasRunAtLoad(schedule) ==
    "run_at_load" \in DOMAIN schedule /\ schedule.run_at_load = TRUE

\* BuildPlist with the two schedule branches in the other order
BuildPlistCalendarFirst(name, command, schedule) ==
    [ Label |-> Label(name),
      ProgramArguments |-> <<"/bin/zsh", "-lc", command>>,
      StandardOutPath |-> log_path(name, ".log"),
      StandardErrorPath |-> log_path(name, ".err") ]
    @@ (IF HasCalendar(schedule) THEN "StartCalendarInterval" :> schedule.calendar
        ELSE IF HasInterval(schedule) THEN "StartInterval" :> schedule.interval
        ELSE EmptyDict)
    @@ (IF HasRunAtLoad(schedule) THEN "RunAtLoad" :> TRUE ELSE EmptyDict)

BuildPlist(name, command, schedule) ==
    [ Label |-> Label(name),
      ProgramArguments |-> <<"/bin/zsh", "-lc", command>>,
      StandardOutPath |-> log_path(name, ".log"),
      StandardErrorPath |-> log_path(name, ".err") ]
    @@ (IF HasInterval(schedule) THEN "StartInterval" :> schedule.interval
        ELSE IF HasCalendar(schedule) THEN "StartCalendarInterval" :> schedule.calendar
        ELSE EmptyDict)
    @@ (IF HasRunAtLoad(schedule) THEN "RunAtLoad" :> TRUE ELSE EmptyDict)

----------------------------------------------------------------------------
(* Rendering for list: a string is the sequence of its pieces *)

SecondsPerMinute == 60
DisplayWidth == 80

Days == <<"Sun", "Mon", "Tue", "Wed", "Thu", "Fri", "Sat">>

\* f"{n:02d}" for 0 <= n < 100
Pad2(n) == <<n \div 10, n % 10>>

\* " ".join(parts)
Join(parts) ==
    IF Len(parts) = 0 THEN <<>>
    ELSE IF Len(parts) = 1 THEN parts[1]
    ELSE parts[1] \o <<" ">> \o parts[2]

\* the schedule_desc computed by list_jobs for one entry
schedule_desc(s) ==
    IF HasInterval(s)
    THEN LET mins == s.interval \div SecondsPerMinute
         IN IF mins > 0 THEN <<"every ", mins, " min">>
                        ELSE <<"every ", s.interval, "s">>
    ELSE IF HasCalendar(s)
    THEN LET cal == s.calendar
             weekday == IF "Weekday" \in DOMAIN cal
                        THEN << <<Days[cal.Weekday + 1]>> >> ELSE <<>>
             hhmm == IF "Hour" \in DOMAIN cal
                     THEN << Pad2(cal.Hour) \o <<":">> \o
                             Pad2(IF "Minute" \in DOMAIN cal THEN cal.Minute ELSE 0) >>
                     ELSE <<>>
             joined == Join(weekday \o hhmm)
         IN IF joined = <<>> THEN <<"calendar">> ELSE joined
    ELSE <<>>

\* e["command"][:80]
Truncated(command) == [text |-> command, width |-> DisplayWidth]

\* the output list built by list_jobs, one item per entry, in list order
list_output_enabled_only(entries) ==
    LET on == SelectSeq(entries, LAMBDA e : e.enabled)
    IN [ i \in DOMAIN on |->
           [ name |-> on[i].name, enabled |-> on[i].enabled,
             schedule |-> schedule_desc(on[i].schedule),
             command |-> Truncated(on[i].command),
             description |-> on[i].description ] ]

list_output(entries) ==
    [ i \in DOMAIN entries |->
        [ name |-> entries[i].name, enabled |-> entries[i].enabled,
          schedule |-> schedule_desc(entries[i].schedule),
          command |-> Truncated(entries[i].command),
          description |-> entries[i].description ] ]

----------------------------------------------------------------------------
(* Filesystem and launchd *)

Exists(files, path) == path \in DOMAIN files

\* open(path, "wb") + plistlib.dump
WriteFile(files, path, content) ==
    [p \in DOMAIN files \union {path} |-> IF p = path THEN content ELSE files[p]]

\* pfile.unlink()
Unlink(files, path) ==
    [p \in DOMAIN files \ {path} |-> files[p]]

\* launchctl load <path>: on return code 0 the plist's label is loaded
LaunchctlLoad(labels, files, path, rc) ==
    IF rc = 0 THEN labels \union {files[path].Label} ELSE labels

\* launchctl unload <path>: on return code 0 the plist's label is gone
LaunchctlUnloadAll(labels, files, path, rc) ==
    IF rc = 0 THEN {} ELSE labels

LaunchctlUnload(labels, files, path, rc) ==
    IF rc = 0 THEN labels \ {files[path].Label} ELSE labels

\* REGISTRY_FILE.write_text(...): the file holds entries afterwards, or
\* write_text raises before writing and the file keeps its contents
save_registry(entries, saved) ==
    IF saved THEN entries ELSE registry

\* an uncaught OSError: nothing is printed on stdout
Traceback == [traceback |-> "OSError"]

\* open(plist_file, "wb") raised: the command stops there
TracebackOpen == [traceback |-> "OSError", at |-> "open(plist_file)"]

NoRequest == [kind |-> "none"]

Request(kind, path, rc) == [kind |-> kind, path |-> path, rc |-> rc]

\* what the command found for name when it started
Snapshot(name) ==
    [ entry |-> Find(registry, name),
      file |-> IF Exists(plists, plist_path(name))
               THEN <<plists[plist_path(name)]>> ELSE <<>>,
      stdout |-> IF Exists(logs, log_path(name, ".log"))
                 THEN <<logs[log_path(name, ".log")]>> ELSE <<>>,
      stderr |-> IF Exists(logs, log_path(name, ".err"))
                 THEN <<logs[log_path(name, ".err")]>> ELSE <<>> ]

NoSnapshot == [entry |-> <<>>, file |-> <<>>, stdout |-> <<>>, stderr |-> <<>>]

\* a process that is not running a command
Idle == [pc |-> "idle"]

Procs == {"p", "q"}

----------------------------------------------------------------------------
(* Initial state: no registry file, no plists, nothing loaded *)

Init ==
    /\ registry = <<>>
    /\ plists = EmptyDict
    /\ loaded = {}
    /\ out = [usage |-> TRUE]
    /\ call = [cmd |-> "none", name |-> ""]
    /\ req = NoRequest
    /\ launchctl = [n \in Names |-> "none"]
    /\ prior = NoSnapshot
    /\ logs = EmptyDict
    /\ procs = [p \in Procs |-> Idle]

----------------------------------------------------------------------------
(* Commands *)

add_job(name, command, schedule, description, now, wrote, rc, saved) ==
    LET entries == registry
        plist_file == plist_path(name)
    IN /\ call' = [cmd |-> "add", name |-> name]
       /\ prior' = Snapshot(name)
       /\ UNCHANGED <<logs, procs>>
       /\ IF HasName(entries, name)
          THEN /\ out' = [error |-> "already exists", name |-> name]
               /\ req' = NoRequest
               /\ UNCHANGED <<registry, plists, loaded, launchctl>>
          ELSE IF ~wrote
          THEN /\ out' = TracebackOpen
               /\ req' = NoRequest
               /\ UNCHANGED <<registry, plists, loaded, launchctl>>
          ELSE /\ plists' = WriteFile(plists, plist_file, BuildPlist(name, command, schedule))
               /\ loaded' = LaunchctlLoad(loaded, plists', plist_file, rc)
               /\ req' = Request("load", plist_file, rc)
               /\ launchctl' = [launchctl EXCEPT ![name] = IF rc = 0 THEN "ok" ELSE "refused"]
               /\ registry' = save_registry(Append(entries, Entry(name, command, schedule, description, now)), saved)
               /\ out' = IF saved
                         THEN [ status |-> "added", name |-> name, plist |-> plist_file,
                                launchctl |-> (rc = 0), schedule |-> schedule ]
                         ELSE Traceback

\* remove_job with the plist cleanup placed ahead of the registry lookup
remove_job_cleanup_first(name, rc, saved) ==
    LET entries == registry
        entry == Find(entries, name)
        pfile == plist_path(name)
    IN /\ call' = [cmd |-> "remove", name |-> name]
       /\ prior' = Snapshot(name)
       /\ UNCHANGED <<logs, procs>>
       /\ IF Exists(plists, pfile)
          THEN /\ loaded' = LaunchctlUnload(loaded, plists, pfile, rc)
               /\ req' = Request("unload", pfile, rc)
               /\ launchctl' = [launchctl EXCEPT ![name] = IF rc = 0 THEN "ok" ELSE "refused"]
               /\ plists' = Unlink(plists, pfile)
          ELSE /\ req' = NoRequest
               /\ launchctl' = [launchctl EXCEPT ![name] = "none"]
               /\ UNCHANGED <<loaded, plists>>
       /\ IF entry = <<>>
          THEN /\ out' = [error |-> "not found", name |-> name]
               /\ UNCHANGED registry
          ELSE /\ registry' = save_registry(Without(entries, name), saved)
               /\ out' = IF saved THEN [status |-> "removed", name |-> name] ELSE Traceback

\* remove_job that also deletes the two log files of the job
remove_job_deletes_logs(name, rc, saved) ==
    LET entries == registry
        entry == Find(entries, name)
        pfile == plist_path(name)
    IN /\ call' = [cmd |-> "remove", name |-> name]
       /\ prior' = Snapshot(name)
       /\ UNCHANGED procs
       /\ IF entry = <<>>
          THEN /\ out' = [error |-> "not found", name |-> name]
               /\ req' = NoRequest
               /\ UNCHANGED <<registry, plists, loaded, launchctl, logs>>
          ELSE /\ IF Exists(plists, pfile)
                  THEN /\ loaded' = LaunchctlUnload(loaded, plists, pfile, rc)
                       /\ req' = Request("unload", pfile, rc)
                       /\ launchctl' = [launchctl EXCEPT ![name] = IF rc = 0 THEN "ok" ELSE "refused"]
                       /\ plists' = Unlink(plists, pfile)
                  ELSE /\ req' = NoRequest
                       /\ launchctl' = [launchctl EXCEPT ![name] = "none"]
                       /\ UNCHANGED <<loaded, plists>>
               /\ logs' = Unlink(Unlink(logs, log_path(name, ".log")), log_path(name, ".err"))
               /\ registry' = save_registry(Without(entries, name), saved)
               /\ out' = IF saved THEN [status |-> "removed", name |-> name] ELSE Traceback

remove_job(name, rc, saved) ==
    LET entries == registry
        entry == Find(entries, name)
        pfile == plist_path(name)
    IN /\ call' = [cmd |-> "remove", name |-> name]
       /\ prior' = Snapshot(name)
       /\ UNCHANGED <<logs, procs>>
       /\ IF entry = <<>>
          THEN /\ out' = [error |-> "not found", name |-> name]
               /\ req' = NoRequest
               /\ UNCHANGED <<registry, plists, loaded, launchctl>>
          ELSE /\ IF Exists(plists, pfile)
                  THEN /\ loaded' = LaunchctlUnload(loaded, plists, pfile, rc)
                       /\ req' = Request("unload", pfile, rc)
                       /\ launchctl' = [launchctl EXCEPT ![name] = IF rc = 0 THEN "ok" ELSE "refused"]
                       /\ plists' = Unlink(plists, pfile)
                  ELSE /\ req' = NoRequest
                       /\ launchctl' = [launchctl EXCEPT ![name] = "none"]
                       /\ UNCHANGED <<loaded, plists>>
               /\ registry' = save_registry(Without(entries, name), saved)
               /\ out' = IF saved THEN [status |-> "removed", name |-> name] ELSE Traceback

\* enable_job without the entry["enabled"] = True assignment
enable_job_flag_untouched(name, rc, saved) ==
    LET entries == registry
        entry == Find(entries, name)
        pfile == plist_path(name)
    IN /\ call' = [cmd |-> "enable", name |-> name]
       /\ prior' = Snapshot(name)
       /\ UNCHANGED <<logs, procs>>
       /\ IF entry = <<>>
          THEN /\ out' = [error |-> "not found", name |-> name]
               /\ req' = NoRequest
               /\ UNCHANGED <<registry, plists, loaded, launchctl>>
          ELSE /\ IF Exists(plists, pfile)
                  THEN /\ loaded' = LaunchctlLoad(loaded, plists, pfile, rc)
                       /\ req' = Request("load", pfile, rc)
                       /\ launchctl' = [launchctl EXCEPT ![name] = IF rc = 0 THEN "ok" ELSE "refused"]
                  ELSE /\ req' = NoRequest
                       /\ launchctl' = [launchctl EXCEPT ![name] = "none"]
                       /\ UNCHANGED loaded
               /\ registry' = save_registry(entries, saved)
               /\ out' = IF saved THEN [status |-> "enabled", name |-> name] ELSE Traceback
               /\ UNCHANGED plists

\* enable_job without the pfile.exists() test
enable_job_unchecked(name, rc, saved) ==
    LET entries == registry
        entry == Find(entries, name)
        pfile == plist_path(name)
    IN /\ call' = [cmd |-> "enable", name |-> name]
       /\ prior' = Snapshot(name)
       /\ UNCHANGED <<logs, procs>>
       /\ IF entry = <<>>
          THEN /\ out' = [error |-> "not found", name |-> name]
               /\ req' = NoRequest
               /\ UNCHANGED <<registry, plists, loaded, launchctl>>
          ELSE /\ loaded' = IF Exists(plists, pfile)
                            THEN LaunchctlLoad(loaded, plists, pfile, rc) ELSE loaded
               /\ req' = Request("load", pfile, rc)
               /\ launchctl' = [launchctl EXCEPT ![name] = IF rc = 0 THEN "ok" ELSE "refused"]
               /\ registry' = save_registry(SetEnabled(entries, name, TRUE), saved)
               /\ out' = IF saved THEN [status |-> "enabled", name |-> name] ELSE Traceback
               /\ UNCHANGED plists

enable_job(name, rc, saved) ==
    LET entries == registry
        entry == Find(entries, name)
        pfile == plist_path(name)
    IN /\ call' = [cmd |-> "enable", name |-> name]
       /\ prior' = Snapshot(name)
       /\ UNCHANGED <<logs, procs>>
       /\ IF entry = <<>>
          THEN /\ out' = [error |-> "not found", name |-> name]
               /\ req' = NoRequest
               /\ UNCHANGED <<registry, plists, loaded, launchctl>>
          ELSE /\ IF Exists(plists, pfile)
                  THEN /\ loaded' = LaunchctlLoad(loaded, plists, pfile, rc)
                       /\ req' = Request("load", pfile, rc)
                       /\ launchctl' = [launchctl EXCEPT ![name] = IF rc = 0 THEN "ok" ELSE "refused"]
                  ELSE /\ req' = NoRequest
                       /\ launchctl' = [launchctl EXCEPT ![name] = "none"]
                       /\ UNCHANGED loaded
               /\ registry' = save_registry(SetEnabled(entries, name, TRUE), saved)
               /\ out' = IF saved THEN [status |-> "enabled", name |-> name] ELSE Traceback
               /\ UNCHANGED plists

\* disable_job that also deletes the plist after unloading it
disable_job_unlinks(name, rc, saved) ==
    LET entries == registry
        entry == Find(entries, name)
        pfile == plist_path(name)
    IN /\ call' = [cmd |-> "disable", name |-> name]
       /\ prior' = Snapshot(name)
       /\ UNCHANGED <<logs, procs>>
       /\ IF entry = <<>>
          THEN /\ out' = [error |-> "not found", name |-> name]
               /\ req' = NoRequest
               /\ UNCHANGED <<registry, plists, loaded, launchctl>>
          ELSE /\ IF Exists(plists, pfile)
                  THEN /\ loaded' = LaunchctlUnload(loaded, plists, pfile, rc)
                       /\ req' = Request("unload", pfile, rc)
                       /\ launchctl' = [launchctl EXCEPT ![name] = IF rc = 0 THEN "ok" ELSE "refused"]
                       /\ plists' = Unlink(plists, pfile)
                  ELSE /\ req' = NoRequest
                       /\ launchctl' = [launchctl EXCEPT ![name] = "none"]
                       /\ UNCHANGED <<loaded, plists>>
               /\ registry' = save_registry(SetEnabled(entries, name, FALSE), saved)
               /\ out' = IF saved THEN [status |-> "disabled", name |-> name] ELSE Traceback

disable_job(name, rc, saved) ==
    LET entries == registry
        entry == Find(entries, name)
        pfile == plist_path(name)
    IN /\ call' = [cmd |-> "disable", name |-> name]
       /\ prior' = Snapshot(name)
       /\ UNCHANGED <<logs, procs>>
       /\ IF entry = <<>>
          THEN /\ out' = [error |-> "not found", name |-> name]
               /\ req' = NoRequest
               /\ UNCHANGED <<registry, plists, loaded, launchctl>>
          ELSE /\ IF Exists(plists, pfile)
                  THEN /\ loaded' = LaunchctlUnload(loaded, plists, pfile, rc)
                       /\ req' = Request("unload", pfile, rc)
                       /\ launchctl' = [launchctl EXCEPT ![name] = IF rc = 0 THEN "ok" ELSE "refused"]
                  ELSE /\ req' = NoRequest
                       /\ launchctl' = [launchctl EXCEPT ![name] = "none"]
                       /\ UNCHANGED loaded
               /\ registry' = save_registry(SetEnabled(entries, name, FALSE), saved)
               /\ out' = IF saved THEN [status |-> "disabled", name |-> name] ELSE Traceback
               /\ UNCHANGED plists

list_jobs(rc) ==
    LET entries == registry
    IN /\ call' = [cmd |-> "list", name |-> ""]
       /\ prior' = NoSnapshot
       /\ UNCHANGED <<registry, plists, loaded, launchctl, logs, procs>>
       /\ IF Len(entries) = 0
          THEN /\ out' = [jobs |-> <<>>, count |-> 0]
               /\ req' = NoRequest
          ELSE /\ req' = Request("list", <<>>, rc)
               /\ out' = [jobs |-> list_output(entries), count |-> Len(list_output(entries))]

\* read_text().strip().split("\n") of a file holding the given lines
SplitLines(content) ==
    IF Len(content) = 0 THEN <<"">> ELSE content

\* content[-lines:]
LastLines(content, lines) ==
    IF lines = 0 THEN content
    ELSE IF lines > 0
    THEN SubSeq(content, IF Len(content) > lines THEN Len(content) - lines + 1 ELSE 1,
                Len(content))
    ELSE SubSeq(content, 1 - lines, Len(content))

show_logs(name, lines) ==
    LET log_file == log_path(name, ".log")
        err_file == log_path(name, ".err")
        result ==
            (IF Exists(logs, log_file)
             THEN "stdout" :> LastLines(SplitLines(logs[log_file]), lines) ELSE EmptyDict)
            @@ (IF Exists(logs, err_file)
                THEN "stderr" :> LastLines(SplitLines(logs[err_file]), lines) ELSE EmptyDict)
    IN /\ call' = [cmd |-> "logs", name |-> name]
       /\ prior' = Snapshot(name)
       /\ req' = NoRequest
       /\ out' = IF DOMAIN result = {} THEN [message |-> "No logs found", name |-> name]
                 ELSE result
       /\ UNCHANGED <<registry, plists, loaded, launchctl, logs, procs>>

\* launchd starts a loaded job: it opens the two paths named in the plist
\* and the command writes one more line to one of them
job_runs(name, stream) ==
    LET log_file == log_path(name, ".log")
        err_file == log_path(name, ".err")
        old(path) == IF Exists(logs, path) THEN logs[path] ELSE <<>>
        target == IF stream = "stdout" THEN log_file ELSE err_file
    IN /\ Label(name) \in loaded
       /\ Len(old(target)) < MaxLogLines
       /\ logs' = [ path \in DOMAIN logs \union {log_file, err_file} |->
                     IF path = target THEN Append(old(path), stream) ELSE old(path) ]
       /\ call' = [cmd |-> "run", name |-> name]
       /\ prior' = Snapshot(name)
       /\ req' = NoRequest
       /\ out' = [usage |-> TRUE]
       /\ UNCHANGED <<registry, plists, loaded, launchctl, procs>>

----------------------------------------------------------------------------
(* Invocations running at the same time.  Each one is split where the     *)
(* registry file is read and where it is written: a load step             *)
(* (load_registry and the name check) and a save step (plist, launchctl,  *)
(* save_registry, print).  A process keeps the entries it loaded.         *)

Running(cmd, name, entries, args) ==
    [pc |-> "loaded", cmd |-> cmd, name |-> name, entries |-> entries, args |-> args]

Done(cmd, name, entries, result) ==
    [pc |-> "done", cmd |-> cmd, name |-> name, entries |-> entries, result |-> result]

ConcFrame == UNCHANGED <<out, call, req, launchctl, prior, logs>>

add_load(p, name, command, schedule, description) ==
    LET entries == registry
    IN /\ procs[p].pc = "idle"
       /\ procs' = [procs EXCEPT ![p] =
             IF HasName(entries, name)
             THEN Done("add", name, entries, [error |-> "already exists", name |-> name])
             ELSE Running("add", name, entries,
                          [command |-> command, schedule |-> schedule,
                           description |-> description])]
       /\ UNCHANGED <<registry, plists, loaded>>
       /\ ConcFrame

\* add_job that reads the registry again just before writing it
add_save_rereads(p, now, rc) ==
    LET me == procs[p]
        plist_file == plist_path(me.name)
    IN /\ me.pc = "loaded" /\ me.cmd = "add"
       /\ plists' = WriteFile(plists, plist_file,
                              BuildPlist(me.name, me.args.command, me.args.schedule))
       /\ loaded' = LaunchctlLoad(loaded, plists', plist_file, rc)
       /\ registry' = Append(registry, Entry(me.name, me.args.command, me.args.schedule,
                                             me.args.description, now))
       /\ procs' = [procs EXCEPT ![p] =
             Done("add", me.name, me.entries,
                  [ status |-> "added", name |-> me.name, plist |-> plist_file,
                    launchctl |-> (rc = 0), schedule |-> me.args.schedule ])]
       /\ ConcFrame

add_save(p, now, rc) ==
    LET me == procs[p]
        plist_file == plist_path(me.name)
    IN /\ me.pc = "loaded" /\ me.cmd = "add"
       /\ plists' = WriteFile(plists, plist_file,
                              BuildPlist(me.name, me.args.command, me.args.schedule))
       /\ loaded' = LaunchctlLoad(loaded, plists', plist_file, rc)
       /\ registry' = Append(me.entries, Entry(me.name, me.args.command, me.args.schedule,
                                               me.args.description, now))
       /\ procs' = [procs EXCEPT ![p] =
             Done("add", me.name, me.entries,
                  [ status |-> "added", name |-> me.name, plist |-> plist_file,
                    launchctl |-> (rc = 0), schedule |-> me.args.schedule ])]
       /\ ConcFrame

\* the lookup that opens remove_job, enable_job and disable_job
lookup_load(p, cmd, name) ==
    LET entries == registry
    IN /\ procs[p].pc = "idle"
       /\ procs' = [procs EXCEPT ![p] =
             IF Find(entries, name) = <<>>
             THEN Done(cmd, name, entries, [error |-> "not found", name |-> name])
             ELSE Running(cmd, name, entries, EmptyDict)]
       /\ UNCHANGED <<registry, plists, loaded>>
       /\ ConcFrame

remove_save(p, rc) ==
    LET me == procs[p]
        pfile == plist_path(me.name)
    IN /\ me.pc = "loaded" /\ me.cmd = "remove"
       /\ IF Exists(plists, pfile)
          THEN /\ loaded' = LaunchctlUnload(loaded, plists, pfile, rc)
               /\ plists' = Unlink(plists, pfile)
          ELSE UNCHANGED <<loaded, plists>>
       /\ registry' = Without(me.entries, me.name)
       /\ procs' = [procs EXCEPT ![p] =
             Done("remove", me.name, me.entries, [status |-> "removed", name |-> me.name])]
       /\ ConcFrame

enable_save(p, rc) ==
    LET me == procs[p]
        pfile == plist_path(me.name)
    IN /\ me.pc = "loaded" /\ me.cmd = "enable"
       /\ loaded' = IF Exists(plists, pfile)
                    THEN LaunchctlLoad(loaded, plists, pfile, rc) ELSE loaded
       /\ registry' = SetEnabled(me.entries, me.name, TRUE)
       /\ procs' = [procs EXCEPT ![p] =
             Done("enable", me.name, me.entries, [status |-> "enabled", name |-> me.name])]
       /\ UNCHANGED plists
       /\ ConcFrame

disable_save(p, rc) ==
    LET me == procs[p]
        pfile == plist_path(me.name)
    IN /\ me.pc = "loaded" /\ me.cmd = "disable"
       /\ loaded' = IF Exists(plists, pfile)
                    THEN LaunchctlUnload(loaded, plists, pfile, rc) ELSE loaded
       /\ registry' = SetEnabled(me.entries, me.name, FALSE)
       /\ procs' = [procs EXCEPT ![p] =
             Done("disable", me.name, me.entries, [status |-> "disabled", name |-> me.name])]
       /\ UNCHANGED plists
       /\ ConcFrame

\* the process ends; the next invocation can start
exit(p) ==
    /\ procs[p].pc = "done"
    /\ procs' = [procs EXCEPT ![p] = Idle]
    /\ UNCHANGED <<registry, plists, loaded>>
    /\ ConcFrame

----------------------------------------------------------------------------
(* Sequential use: one command runs to completion before the next.  In   *)
(* Spec every registry write succeeds; in SpecFaults a write may raise.   *)

Next ==
    \/ \E name \in Names, command \in Commands, schedule \in Schedules,
          description \in Descriptions, now \in Times, rc \in ReturnCodes :
          add_job(name, command, schedule, description, now, TRUE, rc, TRUE)
    \/ \E name \in Names, rc \in ReturnCodes : remove_job(name, rc, TRUE)
    \/ \E name \in Names, rc \in ReturnCodes : enable_job(name, rc, TRUE)
    \/ \E name \in Names, rc \in ReturnCodes : disable_job(name, rc, TRUE)

Spec == Init /\ [][Next]_vars

NextFaults ==
    \/ \E name \in Names, command \in FaultCommands, schedule \in Schedules,
          description \in Descriptions, now \in FaultTimes, wrote \in BOOLEAN,
          rc \in ReturnCodes, saved \in BOOLEAN :
          add_job(name, command, schedule, description, now, wrote, rc, saved)
    \/ \E name \in Names, rc \in ReturnCodes, saved \in BOOLEAN :
          remove_job(name, rc, saved)
    \/ \E name \in Names, rc \in ReturnCodes, saved \in BOOLEAN :
          enable_job(name, rc, saved)
    \/ \E name \in Names, rc \in ReturnCodes, saved \in BOOLEAN :
          disable_job(name, rc, saved)

SpecFaults == Init /\ [][NextFaults]_vars

\* every command, with launchd running the loaded jobs in between
NextView ==
    \/ \E name \in Names, command \in FaultCommands, schedule \in ConcSchedules,
          description \in Descriptions, now \in FaultTimes, rc \in ReturnCodes :
          add_job(name, command, schedule, description, now, TRUE, rc, TRUE)
    \/ \E name \in Names, rc \in ReturnCodes : remove_job(name, rc, TRUE)
    \/ \E name \in Names, rc \in ReturnCodes : enable_job(name, rc, TRUE)
    \/ \E name \in Names, rc \in ReturnCodes : disable_job(name, rc, TRUE)
    \/ \E rc \in ReturnCodes : list_jobs(rc)
    \/ \E name \in Names, lines \in LineCounts : show_logs(name, lines)
    \/ \E name \in Names, stream \in {"stdout", "stderr"} : job_runs(name, stream)

SpecView == Init /\ [][NextView]_vars

\* any number of invocations, two at a time
NextConc ==
    \E p \in Procs :
        \/ \E name \in Names, command \in FaultCommands, schedule \in ConcSchedules,
              description \in Descriptions :
              add_load(p, name, command, schedule, description)
        \/ \E now \in FaultTimes, rc \in ReturnCodes : add_save(p, now, rc)
        \/ \E cmd \in {"remove", "enable", "disable"}, name \in Names :
              lookup_load(p, cmd, name)
        \/ \E rc \in ReturnCodes : remove_save(p, rc)
        \/ \E rc \in ReturnCodes : enable_save(p, rc)
        \/ \E rc \in ReturnCodes : disable_save(p, rc)
        \/ exit(p)

SpecConc == Init /\ [][NextConc]_vars

\* two invocations of add, for different names, on an empty registry
NextTwoAdds ==
    \E p \in Procs :
        \/ \E name \in Names, command \in Commands, schedule \in Schedules,
              description \in Descriptions :
              /\ \A q \in Procs \ {p} : procs[q].pc # "idle" => procs[q].name # name
              /\ add_load(p, name, command, schedule, description)
        \/ \E now \in Times, rc \in ReturnCodes : add_save(p, now, rc)

SpecTwoAdds == Init /\ [][NextTwoAdds]_vars

\* add, list and remove of one job over every shape of schedule
NextSchedules ==
    \/ \E name \in ScheduleNames, command \in FaultCommands, schedule \in WideSchedules,
          description \in Descriptions, now \in FaultTimes, rc \in ReturnCodes :
          add_job(name, command, schedule, description, now, TRUE, rc, TRUE)
    \/ \E name \in ScheduleNames, rc \in ReturnCodes : remove_job(name, rc, TRUE)
    \/ \E rc \in ReturnCodes : list_jobs(rc)

SpecSchedules == Init /\ [][NextSchedules]_vars

----------------------------------------------------------------------------
(* Properties *)

InRegistry(name) == \E i \in DOMAIN registry : registry[i].name = name

Printed(status) == "status" \in DOMAIN out /\ out.status = status

PrintedError == "error" \in DOMAIN out

\* C1: no two entries of the registry have the same name.
NameUnique ==
    \A i, j \in DOMAIN registry :
        registry[i].name = registry[j].name => i = j

\* a duplicate add was just turned away while the registry holds both names
NameUniqueWitness ==
    /\ call.cmd = "add"
    /\ PrintedError
    /\ Len(registry) = Cardinality(Names)

\* C2: add of a name that already has an entry prints an error and leaves
\* the registry, every plist and the loaded labels as they were; exactly
\* one entry has that name afterwards.
DuplicateAddNoMutation ==
    [][ \A n \in Names :
          (call'.cmd = "add" /\ call'.name = n /\ InRegistry(n))
          => /\ "error" \in DOMAIN out'
             /\ req' = NoRequest
             /\ registry' = registry
             /\ plists' = plists
             /\ loaded' = loaded
             /\ Cardinality({i \in DOMAIN registry' : registry'[i].name = n}) = 1
      ]_vars

\* a duplicate add was turned away for a job that is loaded in launchd
DuplicateAddWitness ==
    /\ call.cmd = "add"
    /\ PrintedError
    /\ prior.entry # <<>>
    /\ Label(call.name) \in loaded
    /\ Exists(plists, plist_path(call.name))

\* C3: remove, enable and disable of a name without an entry print an
\* error, send nothing to launchctl and leave the registry, every plist and
\* the loaded labels as they were, also when a plist for the name exists.
NotFoundNoMutation ==
    [][ \A n \in Names :
          (call'.cmd \in {"remove", "enable", "disable"} /\ call'.name = n
             /\ ~InRegistry(n))
          => /\ "error" \in DOMAIN out'
             /\ req' = NoRequest
             /\ registry' = registry
             /\ plists' = plists
             /\ loaded' = loaded
      ]_vars

\* remove was turned away for a name with no entry but a plist on disk
NotFoundWitness ==
    /\ call.cmd = "remove"
    /\ PrintedError
    /\ prior.entry = <<>>
    /\ prior.file # <<>>
    /\ Exists(plists, plist_path(call.name))

\* C4 as claimed: every entry is enabled exactly when its label is loaded.
EnabledMatchesLoaded ==
    \A i \in DOMAIN registry :
        registry[i].enabled = (registry[i].label \in loaded)

\* C4 amended: an entry whose last add/enable/disable had its launchctl
\* request accepted is enabled exactly when its label is loaded.
EnabledMatchesLoadedWhenAccepted ==
    \A i \in DOMAIN registry :
        launchctl[registry[i].name] = "ok"
        => registry[i].enabled = (registry[i].label \in loaded)

\* a disable was accepted by launchctl while another job's load was refused
EnabledMatchesLoadedWitness ==
    /\ call.cmd = "disable"
    /\ Printed("disabled")
    /\ launchctl[call.name] = "ok"
    /\ \E i \in DOMAIN registry :
          registry[i].name = call.name /\ ~registry[i].enabled
    /\ \E i \in DOMAIN registry :
          launchctl[registry[i].name] = "refused" /\ registry[i].enabled
                                                /\ registry[i].label \notin loaded

\* C5: every entry, enabled or not, has its plist on disk.
DefinitionFileExists ==
    \A i \in DOMAIN registry :
        /\ Exists(plists, plist_path(registry[i].name))
        /\ Exists(plists, registry[i].plist)

\* a job was disabled and its plist is still there
DefinitionFileWitness ==
    /\ call.cmd = "disable"
    /\ Printed("disabled")
    /\ \E i \in DOMAIN registry :
          /\ registry[i].name = call.name
          /\ ~registry[i].enabled
          /\ Exists(plists, registry[i].plist)

\* C6: add of a new name appends an entry with enabled = TRUE whether
\* launchctl load returned 0 or not, and the printed launchctl flag is TRUE
\* exactly when it returned 0.
AddRegistersRegardless ==
    [][ \A n \in Names :
          (call'.cmd = "add" /\ call'.name = n /\ ~InRegistry(n))
          => /\ Len(registry') = Len(registry) + 1
             /\ SubSeq(registry', 1, Len(registry)) = registry
             /\ registry'[Len(registry')].name = n
             /\ registry'[Len(registry')].enabled = TRUE
             /\ "status" \in DOMAIN out' /\ out'.status = "added"
             /\ req'.kind = "load"
             /\ out'.launchctl = (req'.rc = 0)
      ]_vars

\* an add whose load was refused: the entry is there, the flag is FALSE
AddRegistersWitness ==
    /\ call.cmd = "add"
    /\ Printed("added")
    /\ req.kind = "load" /\ req.rc # 0
    /\ out.launchctl = FALSE
    /\ \E i \in DOMAIN registry : registry[i].name = call.name /\ registry[i].enabled

\* C7 as claimed: after remove prints "removed" the name has no entry, no
\* plist, and its label is not loaded.
RemoveDestroysAll ==
    (call.cmd = "remove" /\ Printed("removed"))
    => /\ ~InRegistry(call.name)
       /\ ~Exists(plists, plist_path(call.name))
       /\ Label(call.name) \notin loaded

\* C7 amended: after remove prints "removed" the name has no entry and no
\* plist; its label is not loaded when launchctl accepted the unload.
RemoveDestroysEntryAndFile ==
    (call.cmd = "remove" /\ Printed("removed"))
    => /\ ~InRegistry(call.name)
       /\ ~Exists(plists, plist_path(call.name))
       /\ (req.kind = "unload" /\ req.rc = 0 => Label(call.name) \notin loaded)

\* a remove of a job whose plist was already gone
RemoveDestroysWitness ==
    /\ call.cmd = "remove"
    /\ Printed("removed")
    /\ prior.entry # <<>>
    /\ prior.file = <<>>

\* C8: disable of an enabled job followed by enable of the same job leaves
\* its entry (enabled = TRUE and every other field) and its plist as they
\* were before the disable.
EnableDisableSymmetry ==
    [][ \A n \in Names :
          ( /\ call.cmd = "disable" /\ call.name = n /\ Printed("disabled")
            /\ prior.entry # <<>> /\ prior.entry[1].enabled
            /\ prior.file # <<>>
            /\ call'.cmd = "enable" /\ call'.name = n )
          => /\ Find(registry', n) = prior.entry
             /\ Exists(plists', plist_path(n))
             /\ <<plists'[plist_path(n)]>> = prior.file
      ]_vars

\* an enable that found the job disabled
EnableDisableWitness ==
    /\ call.cmd = "enable"
    /\ Printed("enabled")
    /\ prior.entry # <<>>
    /\ ~prior.entry[1].enabled
    /\ Find(registry, call.name)[1].enabled

\* C9: when the launchctl request of add, enable or disable fails, the
\* printed result says so.
DaemonFailureSurfaced ==
    ( /\ call.cmd \in {"add", "enable", "disable"}
      /\ req.kind # "none"
      /\ req.rc # 0
      /\ "status" \in DOMAIN out )
    => ("launchctl" \in DOMAIN out /\ out.launchctl = FALSE)

\* C10: enable of a registered job whose plist is missing does not print
\* the normal "enabled" result.
EnableMissingFileReported ==
    (call.cmd = "enable" /\ prior.entry # <<>> /\ prior.file = <<>>)
    => ~Printed("enabled")

\* the native schedule fields of the plist written for entry e
NativeOf(e) == plists[e.plist]

\* C11 as claimed: interval present and positive gives StartInterval only;
\* calendar present without interval gives StartCalendarInterval verbatim
\* only; neither present gives neither; RunAtLoad is there exactly when
\* run_at_load is true.
ScheduleTranslation ==
    \A i \in DOMAIN registry :
        LET s == registry[i].schedule
            p == NativeOf(registry[i])
        IN /\ ("interval" \in DOMAIN s /\ s.interval > 0)
              => /\ "StartInterval" \in DOMAIN p
                 /\ p.StartInterval = s.interval
                 /\ "StartCalendarInterval" \notin DOMAIN p
           /\ ("interval" \notin DOMAIN s /\ "calendar" \in DOMAIN s)
              => /\ "StartCalendarInterval" \in DOMAIN p
                 /\ p.StartCalendarInterval = s.calendar
                 /\ "StartInterval" \notin DOMAIN p
           /\ ("interval" \notin DOMAIN s /\ "calendar" \notin DOMAIN s)
              => /\ "StartInterval" \notin DOMAIN p
                 /\ "StartCalendarInterval" \notin DOMAIN p
           /\ ("RunAtLoad" \in DOMAIN p)
              <=> ("run_at_load" \in DOMAIN s /\ s.run_at_load = TRUE)

\* C11 amended: the calendar branch needs a calendar with at least one
\* field; an empty calendar without interval gives no schedule field.
ScheduleTranslationNonEmpty ==
    \A i \in DOMAIN registry :
        LET s == registry[i].schedule
            p == NativeOf(registry[i])
        IN /\ ("interval" \in DOMAIN s /\ s.interval > 0)
              => /\ "StartInterval" \in DOMAIN p
                 /\ p.StartInterval = s.interval
                 /\ "StartCalendarInterval" \notin DOMAIN p
           /\ ("interval" \notin DOMAIN s /\ "calendar" \in DOMAIN s
                 /\ DOMAIN s.calendar # {})
              => /\ "StartCalendarInterval" \in DOMAIN p
                 /\ p.StartCalendarInterval = s.calendar
                 /\ "StartInterval" \notin DOMAIN p
           /\ ("interval" \notin DOMAIN s /\ "calendar" \in DOMAIN s
                 /\ DOMAIN s.calendar = {})
              => /\ "StartInterval" \notin DOMAIN p
                 /\ "StartCalendarInterval" \notin DOMAIN p
           /\ ("interval" \notin DOMAIN s /\ "calendar" \notin DOMAIN s)
              => /\ "StartInterval" \notin DOMAIN p
                 /\ "StartCalendarInterval" \notin DOMAIN p
           /\ ("RunAtLoad" \in DOMAIN p)
              <=> ("run_at_load" \in DOMAIN s /\ s.run_at_load = TRUE)

\* a job was added with a positive interval, a calendar and run_at_load
ScheduleTranslationWitness ==
    /\ call.cmd = "add"
    /\ Printed("added")
    /\ \E i \in DOMAIN registry :
          LET s == registry[i].schedule
          IN /\ "interval" \in DOMAIN s /\ s.interval > 0
             /\ "calendar" \in DOMAIN s /\ DOMAIN s.calendar # {}
             /\ "run_at_load" \in DOMAIN s /\ s.run_at_load = TRUE
             /\ "StartInterval" \in DOMAIN NativeOf(registry[i])

\* C12: list shows a positive interval of S seconds as "every N min" with
\* N = S/60 when S is a whole number of minutes, and as "every Ss" otherwise.
IntervalSummary ==
    (call.cmd = "list" /\ "jobs" \in DOMAIN out)
    => \A i \in DOMAIN out.jobs :
          LET s == registry[i].schedule
          IN ("interval" \in DOMAIN s /\ s.interval > 0)
             => out.jobs[i].schedule =
                   IF s.interval % 60 = 0
                   THEN <<"every ", s.interval \div 60, " min">>
                   ELSE <<"every ", s.interval, "s">>

\* position of the entry named name in a list of entries
PositionIn(entries, name) ==
    CHOOSE k \in DOMAIN entries : entries[k].name = name

NamedIn(entries, name) == \E k \in DOMAIN entries : entries[k].name = name

ShowsTailOf(shown, c) ==
    LET all == IF c = <<>> THEN <<"">> ELSE c
    IN /\ Len(shown) >= 1
       /\ Len(shown) <= Len(all)
       /\ shown = SubSeq(all, Len(all) - Len(shown) + 1, Len(all))

\* C14: remove leaves the log files as they are; logs shows the log files
\* of a name whether or not the name has an entry; and logs right after a
\* remove of the same name shows the files as they were before the remove.
LogsSurviveRemoval ==
    [][ /\ call'.cmd = "remove" => logs' = logs
        /\ \A n \in Names :
             (call'.cmd = "logs" /\ call'.name = n)
             => /\ "stdout" \in DOMAIN out' <=> Exists(logs, log_path(n, ".log"))
                /\ "stderr" \in DOMAIN out' <=> Exists(logs, log_path(n, ".err"))
                /\ "message" \in DOMAIN out'
                      <=> (~Exists(logs, log_path(n, ".log")) /\ ~Exists(logs, log_path(n, ".err")))
        /\ \A n \in Names :
             ( /\ call.cmd = "remove" /\ call.name = n /\ Printed("removed")
               /\ call'.cmd = "logs" /\ call'.name = n )
             => /\ "stdout" \in DOMAIN out' <=> prior.stdout # <<>>
                /\ "stderr" \in DOMAIN out' <=> prior.stderr # <<>>
                /\ prior.stdout # <<>> => ShowsTailOf(out'.stdout, prior.stdout[1])
                /\ prior.stderr # <<>> => ShowsTailOf(out'.stderr, prior.stderr[1])
      ]_vars

\* logs shows a line written before the job was removed
LogsSurviveWitness ==
    /\ call.cmd = "logs"
    /\ ~InRegistry(call.name)
    /\ "stdout" \in DOMAIN out
    /\ out.stdout # <<"">>
    /\ prior.entry = <<>>
    /\ prior.stdout # <<>>

\* C16: a name gets an entry only by add of that name, and the new entry is
\* enabled; a name loses its entry only by remove of that name.
OnlyAddCreatesOnlyRemoveDeletes ==
    [][ \A n \in Names :
          /\ (~InRegistry(n) /\ NamedIn(registry', n))
             => /\ call'.cmd = "add" /\ call'.name = n
                /\ registry'[PositionIn(registry', n)].enabled
          /\ (InRegistry(n) /\ ~NamedIn(registry', n))
             => call'.cmd = "remove" /\ call'.name = n
      ]_vars

\* a job was removed while another one stays registered
OnlyRemoveDeletesWitness ==
    /\ call.cmd = "remove"
    /\ Printed("removed")
    /\ prior.entry # <<>>
    /\ ~InRegistry(call.name)
    /\ Len(registry) = 1

\* C15: a launchctl load is only requested, by add or enable, for a plist
\* that exists; add writes the plist before the request, and when the
\* write raises, add stops with no request and no change to the registry.
NoLoadWithoutDefinition ==
    [][ /\ req'.kind = "load"
           => /\ call'.cmd \in {"add", "enable"}
              /\ req'.path = plist_path(call'.name)
              /\ Exists(plists', req'.path)
              /\ plists'[req'.path].Label = Label(call'.name)
        /\ (call'.cmd = "add" /\ out' = TracebackOpen)
           => /\ req' = NoRequest
              /\ registry' = registry
              /\ loaded' = loaded
              /\ plists' = plists
      ]_vars

\* an add stopped at the plist write: no plist, no entry
NoLoadWitness ==
    /\ call.cmd = "add"
    /\ out = TracebackOpen
    /\ ~InRegistry(call.name)
    /\ ~Exists(plists, plist_path(call.name))

\* C17: after an add whose plist was written and loaded but whose registry
\* write failed, the name has no plist and no loaded label unless it has
\* an entry.
AddFailureLeavesNoOrphan ==
    ( /\ call.cmd = "add"
      /\ out = Traceback
      /\ req.kind = "load" /\ req.rc = 0
      /\ ~InRegistry(call.name) )
    => /\ ~Exists(plists, plist_path(call.name))
       /\ Label(call.name) \notin loaded

BothAdded ==
    \A p \in Procs :
        /\ procs[p].pc = "done"
        /\ procs[p].cmd = "add"
        /\ "status" \in DOMAIN procs[p].result

\* C18: when two adds for different names have both printed "added", both
\* plists exist, and the registry holds one entry only (that of the add
\* that saved last) exactly when both had loaded the registry before
\* either saved; that state is reached.
LostUpdate ==
    BothAdded
    => /\ \A p \in Procs : Exists(plists, plist_path(procs[p].name))
       /\ Len(registry) \in {1, 2}
       /\ \A k \in DOMAIN registry : \E p \in Procs : registry[k].name = procs[p].name
       /\ (Len(registry) = 1) <=> (\A p \in Procs : procs[p].entries = <<>>)

\* both adds printed "added", both plists exist, both labels are loaded,
\* and the registry has one entry
LostUpdateWitness ==
    /\ BothAdded
    /\ Len(registry) = 1
    /\ \A p \in Procs :
          /\ Exists(plists, plist_path(procs[p].name))
          /\ Label(procs[p].name) \in loaded
          /\ procs[p].result.launchctl = TRUE

NoDuplicateNames(entries) ==
    \A i, j \in DOMAIN entries : entries[i].name = entries[j].name => i = j

\* C19: with invocations interleaved at load and save, the registry file
\* never holds two entries with the same name, and neither does any list a
\* process has loaded from it.
WrittenNamesUnique ==
    /\ NoDuplicateNames(registry)
    /\ \A p \in Procs : procs[p].pc # "idle" => NoDuplicateNames(procs[p].entries)

\* two adds of the same name both passed the duplicate check and both saved
SameNameAddsWitness ==
    /\ BothAdded
    /\ \A p, q \in Procs : procs[p].name = procs[q].name
    /\ Len(registry) = 1

====
